---- MODULE Spec2Model ----
(***************************************************************************)
(* Sonar Issue Finder (src/src/extension.ts): the issue aggregation and    *)
(* presentation pipeline.  A refresh cycle (refreshAllIssues) is modelled  *)
(* with one step per suspension point of the code (each HTTP page request, *)
(* the workspace file search, the lint run, and the resumption of the      *)
(* handler that awaited the cycle); the code between two suspension points *)
(* runs atomically on the single JavaScript thread.                        *)
(*                                                                         *)
(* Conventions for JavaScript values:                                      *)
(*   - a string that is undefined or "" (both falsy) is "";                *)
(*   - a number that is undefined or 0 (both falsy) is 0;                  *)
(*   - a path is the sequence of its segments, undefined is << >>;         *)
(*   - a component key is a sequence of tokens: "<projectKey>:", "/" and   *)
(*     path segments.                                                      *)
(***************************************************************************)
EXTENDS Integers, Sequences, FiniteSets, TLC

\* ---------------------------------------------------------------- bounds
\* Number of handler runs (the activation's initial load, commands, host
\* events) in one behaviour, and number of refresh cycles it starts, in a
\* workspace whose cycles reach a suspension point.
MaxEvents == 3
MaxCycles == 2
\* The same in a workspace whose cycles all return before they suspend (no
\* workspace folder, no configuration file, or one that does not parse).
MaxQuickEvents == 4
MaxQuickCycles == 3
\* Cap on the page index of one paginated fetch.
MaxPages == 2
\* The same against a server that reports one total on every page.
MaxSteadyPages == 4

\* ------------------------------------------------------ program constants
pageSize == 500

allSeverities == <<"BLOCKER", "CRITICAL", "MAJOR", "MINOR", "INFO">>

Modes == {"overall-all", "overall-file", "new-all", "new-file"}

NoIssuesMessage == " All good! No issues found."

\* ------------------------------------------------------------ helpers
Range(s) == {s[i] : i \in DOMAIN s}

\* Array.prototype.includes
Includes(arr, x) == \E i \in DOMAIN arr : arr[i] = x

\* String.prototype.endsWith("file") / startsWith("new") on a Mode
EndsWithFile(mode) == mode \in {"overall-file", "new-file"}

StartsWithNew(mode) == mode \in {"new-all", "new-file"}

\* ------------------------------------------------------- the environment
WorkspaceRoot == <<"w">>

FileA == <<"w", "a.ts">>

FileB == <<"w", "b.ts">>

FileC == <<"w", "c.ts">>

\* A file the lint engine ignores by default (its name starts with a dot).
DotFile == <<"w", ".eslintrc.js">>

\* The files on disk under the workspace root (c.ts is not checked out), in
\* the order a search enumerates them, which is not the sorted one.
WorkspaceTree ==
  << [path |-> FileB, ext |-> "ts"],
     [path |-> FileA, ext |-> "ts"],
     [path |-> DotFile, ext |-> "js"],
     [path |-> <<"w", "README.md">>, ext |-> "md"],
     [path |-> <<"w", "node_modules", "x.js">>, ext |-> "js"] >>

\* fs.existsSync
ExistsSync(p) == \E i \in DOMAIN WorkspaceTree : WorkspaceTree[i].path = p

\* vscode.workspace.findFiles("**/*.{js,ts,jsx,tsx}", "**/node_modules/**")
FindFiles ==
  LET Match(e) == /\ e.ext \in {"js", "ts", "jsx", "tsx"}
                  /\ ~ Includes(e.path, "node_modules")
      hits == SelectSeq(WorkspaceTree, Match)
  IN  [i \in DOMAIN hits |-> hits[i].path]

\* The documents an editor can show; << >> is "no active editor".
Editors == {<< >>, FileA}

\* What .vscode/sonar-config.json can be.
ConfigStates ==
  {"noWorkspace", "missing", "malformed", "complete", "noServer"}

\* The projectKey the destructuring of line 339 yields ("" is undefined).
ConfigProjectKey(cfg) == IF cfg = "noProjectKey" THEN "" ELSE "pk"

\* `${projectKey}:` as one token
KeyToken(projectKey) == IF projectKey = "" THEN "undefined:" ELSE "pk:"

\* Raw records the server can put on a page.
RawA == [message |-> "m1", rule |-> "r1", severity |-> "BLOCKER",
         component |-> <<"pk:", "a.ts">>, startLine |-> 3]

RawB == [message |-> "", rule |-> "", severity |-> "",
         component |-> <<"pk:", "/", "b.ts">>, startLine |-> 0]

RawC == [message |-> "m3", rule |-> "r3", severity |-> "MAJOR",
         component |-> <<"pk:", "c.ts">>, startLine |-> 7]

RawD == [message |-> "m4", rule |-> "r4", severity |-> "MINOR",
         component |-> <<"pk:", "b.ts">>, startLine |-> 2]

\* data.issues of one page
PageChoices == { << >>, <<RawA, RawB, RawC, RawD>> }

\* data.paging.total of one page
TotalChoices == {1, 500, 501, 1000, 1001, 1200, 1501}

\* A native lint severity: a number or a string.
Num(n) == [kind |-> "number", num |-> n, str |-> ""]

Str(s) == [kind |-> "string", num |-> 0, str |-> s]

\* What the lint engine finds in a file, in each of the states the sources
\* can be in (0: clean).  For a file it ignores it answers, whatever the file
\* holds, with one warning that has no rule and no location: line 0 stands
\* for the missing msg.line.
LintVariants == 0 .. 1

LintMessages(variant, file) ==
  CASE file = DotFile ->
         << [message |-> "File ignored by default.", ruleId |-> "",
             severity |-> Num(1), line |-> 0] >>
    [] variant = 1 /\ file = FileA ->
         << [message |-> "e1", ruleId |-> "no-undef", severity |-> Num(2), line |-> 1],
            [message |-> "i1", ruleId |-> "x", severity |-> Num(0), line |-> 5] >>
    [] variant = 1 /\ file = FileB ->
         << [message |-> "w1", ruleId |-> "", severity |-> Str("warn"), line |-> 2],
            [message |-> "e3", ruleId |-> "z", severity |-> Str("error"), line |-> 4],
            [message |-> "w2", ruleId |-> "z", severity |-> Num(1), line |-> 6],
            [message |-> "o1", ruleId |-> "z", severity |-> Num(3), line |-> 8] >>
    [] variant = 1 /\ file = <<"w", "node_modules", "x.js">> ->
         << [message |-> "e2", ruleId |-> "y", severity |-> Str("error"), line |-> 1] >>
    [] OTHER -> << >>

\* eslint.lintFiles(files): one result per file, in order
LintFiles(variant, files) ==
  [i \in DOMAIN files |->
     [filePath |-> files[i], messages |-> LintMessages(variant, files[i])]]

\* The severity selections a user makes (and a workspace can hold).
SeverityChoices ==
  { {"BLOCKER"}, {"CRITICAL", "MAJOR"}, Range(allSeverities) }

\* picked.map(item => item.label): the picked labels in the order of the list
PickedLabels(S) == SelectSeq(allSeverities, LAMBDA s : s \in S)

\* ---------------------------------------------------------------- state
VARIABLES
  currentMode,          \* let currentMode: Mode
  autoRefreshEnabled,   \* let autoRefreshEnabled
  selectedSeverities,   \* let selectedSeverities: string[] (in memory)
  persistedSeverities,  \* the workspace setting sonarExtension.selectedSeverities
  sevUpdatePending,     \* selectSeverities is awaiting the setting's update
  diagnosticCollection, \* the "sonar" diagnostic collection: <<[uri, diags]>>
  issuesByFile,         \* the view's provider's map, in insertion order
  treeMessage,          \* treeView.message ("" is undefined)
  statusBarText,        \* the mode name in statusBarItem.text
  lastMessage,          \* the notification shown last
  activeEditor,         \* the active document's path (<< >>: none)
  configFile,           \* the state of .vscode/sonar-config.json
  cycles,               \* the refresh cycles, by the order they started in
  started,              \* how many cycles have started
  events,               \* how many handlers have run
  lastEvent,            \* the handler that ran last
  changeEvents,         \* onDidChangeTreeData notifications fired so far
  server                \* the values the server may report as paging.total

vars == <<currentMode, autoRefreshEnabled, selectedSeverities,
          persistedSeverities, sevUpdatePending, diagnosticCollection,
          issuesByFile, treeMessage, statusBarText, lastMessage,
          activeEditor, configFile, cycles, started, events,
          lastEvent, changeEvents, server>>

\* ------------------------------------------------------------ issue model
SonarIssue(message, rule, severity, filePath, line) ==
  [message |-> message, rule |-> rule, severity |-> severity,
   filePath |-> filePath, line |-> line]

\* a || b on strings ("" stands for a missing value)
OrStr(a, b) == IF a = "" THEN b ELSE a

\* A faulty variant of the default below: the value is passed on as it is.
OrNumAsIs(a, b) == a

\* a || b on numbers (0 stands for a missing value)
OrNum(a, b) == IF a = 0 THEN b ELSE a

\* ------------------------------------------------------- severity mapping
\* A faulty variant of the mapping below: an error is a blocker.
mapEslintSeverityBlocker(eslintSeverity) ==
  IF \/ (eslintSeverity.kind = "number" /\ eslintSeverity.num = 2)
     \/ (eslintSeverity.kind = "string" /\ eslintSeverity.str = "error")
  THEN "BLOCKER"
  ELSE IF \/ (eslintSeverity.kind = "number" /\ eslintSeverity.num = 1)
          \/ (eslintSeverity.kind = "string" /\ eslintSeverity.str = "warn")
       THEN "MAJOR"
       ELSE "INFO"

\* mapEslintSeverity: lines 518-526
mapEslintSeverity(eslintSeverity) ==
  IF \/ (eslintSeverity.kind = "number" /\ eslintSeverity.num = 2)
     \/ (eslintSeverity.kind = "string" /\ eslintSeverity.str = "error")
  THEN "CRITICAL"
  ELSE IF \/ (eslintSeverity.kind = "number" /\ eslintSeverity.num = 1)
          \/ (eslintSeverity.kind = "string" /\ eslintSeverity.str = "warn")
       THEN "MAJOR"
       ELSE "INFO"

\* A faulty variant of the mapping below: MINOR is shown as a warning.
mapSeverityMinorWarning(sev) ==
  CASE sev = "BLOCKER"  -> [vscodeSeverity |-> "Error", prefix |-> "BLOCKER"]
    [] sev = "CRITICAL" -> [vscodeSeverity |-> "Error", prefix |-> "CRITICAL"]
    [] sev = "MAJOR"    -> [vscodeSeverity |-> "Warning", prefix |-> "MAJOR"]
    [] sev = "MINOR"    -> [vscodeSeverity |-> "Warning", prefix |-> "MINOR"]
    [] sev = "INFO"     -> [vscodeSeverity |-> "Information", prefix |-> "INFO"]
    [] OTHER            -> [vscodeSeverity |-> "Information", prefix |-> "INFO"]

\* mapSeverity: lines 499-515
mapSeverity(sev) ==
  CASE sev = "BLOCKER"  -> [vscodeSeverity |-> "Error", prefix |-> "BLOCKER"]
    [] sev = "CRITICAL" -> [vscodeSeverity |-> "Error", prefix |-> "CRITICAL"]
    [] sev = "MAJOR"    -> [vscodeSeverity |-> "Warning", prefix |-> "MAJOR"]
    [] sev = "MINOR"    -> [vscodeSeverity |-> "Information", prefix |-> "MINOR"]
    [] sev = "INFO"     -> [vscodeSeverity |-> "Information", prefix |-> "INFO"]
    [] OTHER            -> [vscodeSeverity |-> "Information", prefix |-> "INFO"]

\* The ThemeIcon getTreeItem gives an issue node (lines 90-106): its id and
\* its colour ("" when none is passed).
getTreeItemIcon(severity) ==
  CASE severity \in {"BLOCKER", "CRITICAL"} ->
         [id |-> "error", color |-> "problemsErrorIcon.foreground"]
    [] severity = "MAJOR" ->
         [id |-> "warning", color |-> "problemsWarningIcon.foreground"]
    [] severity \in {"MINOR", "INFO"} ->
         [id |-> "info", color |-> "problemsInfoIcon.foreground"]
    [] OTHER -> [id |-> "info", color |-> ""]

\* --------------------------------------------------- workspace reconciler
\* String.prototype.replace(token, ""): removes the first occurrence only
RECURSIVE RemoveFirst(_, _)
RemoveFirst(s, tok) ==
  IF s = << >> THEN << >>
  ELSE IF Head(s) = tok THEN Tail(s)
       ELSE <<Head(s)>> \o RemoveFirst(Tail(s), tok)

\* .replace(/^\/+/, "")
RECURSIVE StripLeadingSlashes(_)
StripLeadingSlashes(s) ==
  IF s # << >> /\ Head(s) = "/" THEN StripLeadingSlashes(Tail(s)) ELSE s

\* path.join(workspaceRoot, relPath)
PathJoin(root, rel) == root \o SelectSeq(rel, LAMBDA t : t # "/")

ResolveComponent(component, projectKey, workspaceRoot) ==
  PathJoin(workspaceRoot,
           StripLeadingSlashes(RemoveFirst(component, KeyToken(projectKey))))

\* A faulty variant of the reconciler below: the file is not looked up.
filterByWorkspaceUnchecked(issues, projectKey, workspaceRoot, currentFile) ==
  LET Keep(issue) ==
        LET absPath == ResolveComponent(issue.component, projectKey, workspaceRoot)
        IN  IF currentFile # << >> THEN absPath = currentFile ELSE TRUE
      kept == SelectSeq(issues, Keep)
  IN  [i \in DOMAIN kept |->
         SonarIssue(OrStr(kept[i].message, "Unknown"),
                    OrStr(kept[i].rule, "Unknown"),
                    OrStr(kept[i].severity, "INFO"),
                    ResolveComponent(kept[i].component, projectKey, workspaceRoot),
                    OrNum(kept[i].startLine, 1))]

\* filterByWorkspace: lines 429-453
filterByWorkspace(issues, projectKey, workspaceRoot, currentFile) ==
  LET Keep(issue) ==
        LET absPath == ResolveComponent(issue.component, projectKey, workspaceRoot)
        IN  IF ~ ExistsSync(absPath) THEN FALSE
            ELSE IF currentFile # << >> THEN absPath = currentFile
                 ELSE TRUE
      kept == SelectSeq(issues, Keep)
  IN  [i \in DOMAIN kept |->
         SonarIssue(OrStr(kept[i].message, "Unknown"),
                    OrStr(kept[i].rule, "Unknown"),
                    OrStr(kept[i].severity, "INFO"),
                    ResolveComponent(kept[i].component, projectKey, workspaceRoot),
                    OrNum(kept[i].startLine, 1))]

\* ------------------------------------------------------ local analysis
\* results.forEach(result => result.messages.forEach(msg => issues.push(..)))
RECURSIVE NormalizeResults(_)
NormalizeResults(results) ==
  IF results = << >> THEN << >>
  ELSE LET result == Head(results)
           own == [j \in DOMAIN result.messages |->
                     SonarIssue(result.messages[j].message,
                                OrStr(result.messages[j].ruleId, "ESLint"),
                                mapEslintSeverity(result.messages[j].severity),
                                result.filePath,
                                result.messages[j].line)]
       IN  own \o NormalizeResults(Tail(results))

runESLintAnalysis(variant, files) == NormalizeResults(LintFiles(variant, files))

\* ---------------------------------------------------- severity filtering
\* A faulty variant of the filter below: nothing is filtered out.
FilterBySeverityOff(issues, selected) == issues

\* issues.filter(issue => selectedSeverities.includes(issue.severity))
FilterBySeverity(issues, selected) ==
  SelectSeq(issues, LAMBDA issue : Includes(selected, issue.severity))

\* A faulty variant of the concatenation below: the local list comes first.
AllFilteredLocalFirst(filteredSonarIssues, filteredLocalIssues) ==
  filteredLocalIssues \o filteredSonarIssues

\* A faulty variant of the concatenation below: the local list is dropped.
AllFilteredRemoteOnly(filteredSonarIssues, filteredLocalIssues) ==
  filteredSonarIssues

\* [...filteredSonarIssues, ...filteredLocalIssues]
AllFiltered(filteredSonarIssues, filteredLocalIssues) ==
  filteredSonarIssues \o filteredLocalIssues

\* -------------------------------------------------- diagnostics publisher
Diagnostic(issue, source) ==
  [line |-> issue.line - 1,
   message |-> <<mapSeverity(issue.severity).prefix, issue.message, issue.rule>>,
   severity |-> mapSeverity(issue.severity).vscodeSeverity,
   source |-> source]

\* diagnosticCollection.get(uri) || []
DiagGet(coll, uri) ==
  IF \E i \in DOMAIN coll : coll[i].uri = uri
  THEN (CHOOSE e \in Range(coll) : e.uri = uri).diags
  ELSE << >>

\* diagnosticCollection.set(uri, diags)
DiagSet(coll, uri, diags) ==
  IF \E i \in DOMAIN coll : coll[i].uri = uri
  THEN [i \in DOMAIN coll |->
          IF coll[i].uri = uri THEN [uri |-> uri, diags |-> diags] ELSE coll[i]]
  ELSE Append(coll, [uri |-> uri, diags |-> diags])

\* A faulty variant of the loop below: a file's marker list is set to the
\* new marker alone.
RECURSIVE PublishAllOverwrite(_, _, _)
PublishAllOverwrite(coll, issues, source) ==
  IF issues = << >> THEN coll
  ELSE LET issue == Head(issues)
           next == DiagSet(coll, issue.filePath, <<Diagnostic(issue, source)>>)
       IN  PublishAllOverwrite(next, Tail(issues), source)

\* issues.forEach(issue => diagnosticCollection.set(uri,
\*   [...(diagnosticCollection.get(uri) || []), diag]))
RECURSIVE PublishAll(_, _, _)
PublishAll(coll, issues, source) ==
  IF issues = << >> THEN coll
  ELSE LET issue == Head(issues)
           next == DiagSet(coll, issue.filePath,
                           Append(DiagGet(coll, issue.filePath),
                                  Diagnostic(issue, source)))
       IN  PublishAll(next, Tail(issues), source)

\* A faulty variant of the publisher below: the collection is not cleared.
showSeparatedDiagnosticsKeep(sonarIssues, localIssues) ==
  PublishAll(PublishAll(diagnosticCollection, sonarIssues, "SonarQube"),
             localIssues, "ESLint")

\* The collection after showSeparatedDiagnostics (it starts from clear()).
showSeparatedDiagnostics(sonarIssues, localIssues) ==
  PublishAll(PublishAll(<< >>, sonarIssues, "SonarQube"), localIssues, "ESLint")

\* ------------------------------------------------------- grouped store
\* A faulty variant of the grouping below: a finding equal to one its group
\* already holds is not added.
RECURSIVE GroupByFileDedup(_, _)
GroupByFileDedup(map, issues) ==
  IF issues = << >> THEN map
  ELSE LET issue == Head(issues)
           has == \E i \in DOMAIN map : map[i].key = issue.filePath
           withKey == IF has THEN map
                      ELSE Append(map, [key |-> issue.filePath, issues |-> << >>])
           next == [i \in DOMAIN withKey |->
                      IF /\ withKey[i].key = issue.filePath
                         /\ ~ Includes(withKey[i].issues, issue)
                      THEN [key |-> withKey[i].key,
                            issues |-> Append(withKey[i].issues, issue)]
                      ELSE withKey[i]]
       IN  GroupByFileDedup(next, Tail(issues))

\* issues.forEach: create the file's group when the map has none, push
RECURSIVE GroupByFile(_, _)
GroupByFile(map, issues) ==
  IF issues = << >> THEN map
  ELSE LET issue == Head(issues)
           has == \E i \in DOMAIN map : map[i].key = issue.filePath
           withKey == IF has THEN map
                      ELSE Append(map, [key |-> issue.filePath, issues |-> << >>])
           next == [i \in DOMAIN withKey |->
                      IF withKey[i].key = issue.filePath
                      THEN [key |-> withKey[i].key,
                            issues |-> Append(withKey[i].issues, issue)]
                      ELSE withKey[i]]
       IN  GroupByFile(next, Tail(issues))

\* A faulty variant of the grouping below: the map is not cleared.
SetIssuesMapKeep(issues) == GroupByFile(issuesByFile, issues)

\* issuesByFile after SonarIssuesProvider.setIssues(issues)
SetIssuesMap(issues) == GroupByFile(<< >>, issues)

\* A faulty variant of the message below: the placeholder is never set.
SetIssuesMessageNever(issues) == ""

\* A faulty variant of the message below: a non-empty list leaves the
\* message as it is.
SetIssuesMessageSticky(issues) ==
  IF Len(issues) = 0 THEN NoIssuesMessage ELSE treeMessage

\* treeView.message after setIssues on the provider activate() attached to
\* the view ("" is undefined)
SetIssuesMessage(issues) == IF Len(issues) = 0 THEN NoIssuesMessage ELSE ""

\* The paths of the model in the order Array.prototype.sort() puts their
\* strings (UTF-16 code units: "R" sorts before "a").
SortedPaths ==
  << DotFile, <<"w", "README.md">>, FileA, FileB, FileC,
     <<"w", "node_modules", "x.js">> >>

\* The elements the view asks children of: none (the root), a file path, an
\* issue.
RootElement == [kind |-> "root", key |-> << >>]

FileElement(path) == [kind |-> "file", key |-> path]

IssueElement == [kind |-> "issue", key |-> << >>]

\* A faulty variant of the query below: the keys come in insertion order.
getChildrenUnsorted(map, element) ==
  IF element.kind = "root"
  THEN [i \in DOMAIN map |-> map[i].key]
  ELSE IF element.kind = "file"
  THEN IF \E i \in DOMAIN map : map[i].key = element.key
       THEN (CHOOSE e \in Range(map) : e.key = element.key).issues
       ELSE << >>
  ELSE << >>

\* SonarIssuesProvider.getChildren(element): lines 112-124
getChildren(map, element) ==
  IF element.kind = "root"
  THEN SelectSeq(SortedPaths,
                 LAMBDA path : \E i \in DOMAIN map : map[i].key = path)
  ELSE IF element.kind = "file"
  THEN IF \E i \in DOMAIN map : map[i].key = element.key
       THEN (CHOOSE e \in Range(map) : e.key = element.key).issues
       ELSE << >>
  ELSE << >>

\* ------------------------------------------------------------ status bar
\* statusBarItem.text after updateStatusBar: decided by currentMode alone
ModeDisplayName(mode) ==
  CASE mode = "overall-all"  -> "Overall Code (All Files)"
    [] mode = "overall-file" -> "Overall Code (Current File)"
    [] mode = "new-all"      -> "New Code (All Files)"
    [] mode = "new-file"     -> "New Code (Current File)"
    [] OTHER                 -> "Overall Code (All Files)"

\* -------------------------------------------------------- refresh cycles
CycleIds ==
  1 .. (IF MaxQuickCycles > MaxCycles THEN MaxQuickCycles ELSE MaxCycles)

\* The configurations with which refreshAllIssues returns before its first
\* await.
QuickConfigs == {"noWorkspace", "missing", "malformed"}

EventBudget == IF configFile \in QuickConfigs THEN MaxQuickEvents ELSE MaxEvents

CycleBudget == IF configFile \in QuickConfigs THEN MaxQuickCycles ELSE MaxCycles

\* data.paging.total as the server reports it with one page: any of these,
\* page by page.
ReportedTotals == server

PageBudget == IF Cardinality(server) = 1 THEN MaxSteadyPages ELSE MaxPages

\* A cycle's locals.  pc is the suspension point it waits at: "new" (not
\* started), "fetch" (a page request), "findFiles", "lint"; "done" once it
\* has returned, its locals kept as they were at the return.
BlankCycle ==
  [pc |-> "new", mode |-> "overall-all", cfg |-> "complete",
   currentFile |-> << >>, projectKey |-> "",
   page |-> 0, requests |-> 0, fileFilter |-> << >>, severitiesParam |-> << >>,
   allIssues |-> << >>, fetchThrew |-> FALSE, fetchReturned |-> FALSE,
   sonarIssues |-> << >>,
   lintCalled |-> FALSE, lintArg |-> << >>, localIssues |-> << >>,
   lintThrew |-> FALSE, selected |-> << >>, shown |-> "none",
   result |-> << >>, exit |-> "none"]

Init ==
  /\ currentMode = "overall-all"
  /\ autoRefreshEnabled = TRUE
  /\ \E S \in SeverityChoices :
       /\ persistedSeverities = PickedLabels(S)
       /\ selectedSeverities = PickedLabels(S)
  /\ sevUpdatePending = FALSE
  /\ diagnosticCollection = << >>
  /\ issuesByFile = << >>
  /\ treeMessage = ""
  /\ statusBarText = ModeDisplayName("overall-all")
  /\ lastMessage = "none"
  /\ activeEditor \in Editors
  /\ configFile \in ConfigStates
  /\ cycles = [c \in CycleIds |-> BlankCycle]
  /\ started = 0
  /\ events = 0
  /\ lastEvent = "none"
  /\ changeEvents = 0
  /\ server = TotalChoices

\* The extension activated with the default settings, in a workspace whose
\* configuration is complete against a server that reports the same
\* paging.total on every page of every fetch, or in a window with no
\* workspace folder (which never reaches the server).
SteadyInit ==
  /\ currentMode = "overall-all"
  /\ autoRefreshEnabled = TRUE
  /\ persistedSeverities = <<"BLOCKER">>
  /\ selectedSeverities = <<"BLOCKER">>
  /\ sevUpdatePending = FALSE
  /\ diagnosticCollection = << >>
  /\ issuesByFile = << >>
  /\ treeMessage = ""
  /\ statusBarText = ModeDisplayName("overall-all")
  /\ lastMessage = "none"
  /\ activeEditor = << >>
  /\ cycles = [c \in CycleIds |-> BlankCycle]
  /\ started = 0
  /\ events = 0
  /\ lastEvent = "none"
  /\ changeEvents = 0
  /\ \/ configFile = "complete" /\ \E total \in TotalChoices : server = {total}
     \/ configFile = "noWorkspace" /\ server = {1}

\* ------------------------------------------------- refreshAllIssues: steps
\* A faulty variant of the test below: the file is taken to exist.
ConfigExistsAlways(cfg) == TRUE

\* fs.existsSync(configPath)
ConfigExists(cfg) == cfg # "missing"

\* if (!isNewMode): the remote branch runs
RunsRemote(mode) == ~ StartsWithNew(mode)

\* if (isNewMode || mode === "overall-all"): the local branch runs
RunsLocal(mode) == StartsWithNew(mode) \/ mode = "overall-all"

\* The local branch up to its first suspension point: the file set is
\* [currentFile] without a search, or the awaited workspace search.
EnterLocal(rec) ==
  IF EndsWithFile(rec.mode) /\ rec.currentFile # << >>
  THEN [rec EXCEPT !.pc = "lint", !.lintCalled = TRUE,
                   !.lintArg = <<rec.currentFile>>]
  ELSE [rec EXCEPT !.pc = "findFiles"]

\* A faulty variant of the return below: a cycle that is not the one started
\* last drops its result.
ReturnIfLatest(c, rec, modeNow) ==
  /\ cycles' = [cycles EXCEPT ![c] = [rec EXCEPT !.pc = "done"]]
  /\ IF c >= started
     THEN /\ issuesByFile' = SetIssuesMap(rec.result)
          /\ treeMessage' = SetIssuesMessage(rec.result)
          /\ changeEvents' = changeEvents + 1
          /\ statusBarText' = ModeDisplayName(modeNow)
     ELSE UNCHANGED <<issuesByFile, treeMessage, changeEvents,
                 statusBarText>>

\* refreshAllIssues returns rec.result and the handler that awaited it
\* resumes in the same turn of the event loop (the promise is already
\* resolved, no I/O is awaited in between):
\*   provider.setIssues(issues); updateStatusBar(issues.length)
\* modeNow is currentMode at that moment.
Return(c, rec, modeNow) ==
  /\ cycles' = [cycles EXCEPT ![c] = [rec EXCEPT !.pc = "done"]]
  /\ issuesByFile' = SetIssuesMap(rec.result)
  /\ treeMessage' = SetIssuesMessage(rec.result)
  /\ changeEvents' = changeEvents + 1
  /\ statusBarText' = ModeDisplayName(modeNow)

\* Lines 368-382: filter, publish, update the status bar and return.  The
\* provider built on line 378 is attached to no view and is dropped on
\* return: it changes nothing the program keeps.
Finish(c, rec, localIssues) ==
  LET filteredSonarIssues == FilterBySeverity(rec.sonarIssues, selectedSeverities)
      filteredLocalIssues == FilterBySeverity(localIssues, selectedSeverities)
  IN  /\ diagnosticCollection' =
           showSeparatedDiagnostics(filteredSonarIssues, filteredLocalIssues)
      /\ Return(c, [rec EXCEPT !.exit = "normal",
                               !.localIssues = localIssues,
                               !.selected = selectedSeverities,
                               !.result = AllFiltered(filteredSonarIssues,
                                                      filteredLocalIssues)],
                currentMode)

\* The outer catch of lines 384-389: console.error, return [].
Caught(rec) == [rec EXCEPT !.exit = "caught", !.result = << >>]

\* refreshAllIssues(mode) from its call to its first suspension point, or to
\* its return when it reaches none.
RefreshStart(mode, modeNow) ==
  /\ started < CycleBudget
  /\ started' = started + 1
  /\ UNCHANGED diagnosticCollection
  /\ LET c == started + 1
         base == [BlankCycle EXCEPT !.mode = mode, !.cfg = configFile]
         loaded == [base EXCEPT !.currentFile = activeEditor,
                                !.projectKey = ConfigProjectKey(configFile)]
     IN  IF configFile = "noWorkspace"
         THEN /\ Return(c, [base EXCEPT !.exit = "noWorkspace"], modeNow)
              /\ UNCHANGED lastMessage
         ELSE IF ~ ConfigExists(configFile)
         THEN /\ Return(c, [base EXCEPT !.exit = "noConfig",
                                         !.shown = "Sonar config not found"],
                        modeNow)
              /\ lastMessage' = "Sonar config not found"
         ELSE IF configFile = "malformed"
         THEN /\ Return(c, Caught(base), modeNow)
              /\ UNCHANGED lastMessage
         ELSE /\ cycles' = [cycles EXCEPT ![c] =
                   IF RunsRemote(mode)
                   THEN [loaded EXCEPT
                           !.pc = "fetch", !.page = 1, !.requests = 1,
                           !.fileFilter = IF EndsWithFile(mode)
                                          THEN activeEditor ELSE << >>,
                           !.severitiesParam = persistedSeverities]
                   ELSE EnterLocal(loaded)]
              /\ UNCHANGED <<lastMessage, issuesByFile, treeMessage,
                             changeEvents, statusBarText>>

\* fetchIssues has returned allIssues: lines 348-366 up to the next
\* suspension point, or to the return when the local branch does not run.
AfterFetch(c, rec, allIssues) ==
  LET got == [rec EXCEPT
                !.allIssues = allIssues, !.fetchReturned = TRUE,
                !.sonarIssues =
                   filterByWorkspace(allIssues, rec.projectKey, WorkspaceRoot,
                                     IF EndsWithFile(rec.mode)
                                     THEN rec.currentFile ELSE << >>)]
  IN  IF RunsLocal(rec.mode)
      THEN /\ cycles' = [cycles EXCEPT ![c] = EnterLocal(got)]
           /\ UNCHANGED <<diagnosticCollection, issuesByFile, treeMessage,
                          changeEvents, statusBarText>>
      ELSE Finish(c, got, << >>)

\* A faulty variant of the failure below: the error is swallowed.
FetchFailureSwallowed(allIssues) == [threw |-> FALSE, value |-> << >>]

\* What a network or parse failure inside fetchIssues becomes: the function
\* has no handler of its own, so the awaited call throws.
FetchFailure(allIssues) == [threw |-> TRUE, value |-> << >>]

\* The request a cycle waits for fails (network error, or res.json() cannot
\* parse the body).
FetchFails(c) ==
  /\ cycles[c].pc = "fetch"
  /\ LET rec == [cycles[c] EXCEPT !.fetchThrew = TRUE]
         out == FetchFailure(rec.allIssues)
     IN  IF out.threw
         THEN /\ Return(c, Caught(rec), currentMode)
              /\ UNCHANGED diagnosticCollection
         ELSE AfterFetch(c, rec, out.value)
  /\ UNCHANGED <<currentMode, autoRefreshEnabled, selectedSeverities,
                 persistedSeverities, sevUpdatePending, lastMessage,
                 activeEditor, configFile, server, started, events,
                 lastEvent>>

\* A faulty variant of the step below: a response that is not ok is thrown
\* as a failure of the fetch.
FetchNotOkThrows(c) ==
  /\ cycles[c].pc = "fetch"
  /\ cycles[c].cfg # "noServer"
  /\ Return(c, Caught([cycles[c] EXCEPT !.fetchThrew = TRUE]), currentMode)
  /\ UNCHANGED <<currentMode, autoRefreshEnabled, selectedSeverities,
                 persistedSeverities, sevUpdatePending, lastMessage,
                 activeEditor, configFile, server, started, events,
                 lastEvent, diagnosticCollection>>

\* if (!res.ok) break
FetchNotOk(c) ==
  /\ cycles[c].pc = "fetch"
  /\ cycles[c].cfg # "noServer"
  /\ AfterFetch(c, cycles[c], cycles[c].allIssues)
  /\ UNCHANGED <<currentMode, autoRefreshEnabled, selectedSeverities,
                 persistedSeverities, sevUpdatePending, lastMessage,
                 activeEditor, configFile, server, started, events,
                 lastEvent>>

\* A faulty variant of the step below: the loop stops only once the total is
\* below the records asked for so far.
FetchPageStrict(c) ==
  /\ cycles[c].pc = "fetch"
  /\ cycles[c].cfg # "noServer"
  /\ \E issues \in PageChoices, total \in ReportedTotals :
       LET rec == cycles[c] IN
       IF Len(issues) = 0
       THEN AfterFetch(c, rec, rec.allIssues)
       ELSE IF total < rec.page * pageSize
       THEN AfterFetch(c, rec, rec.allIssues \o issues)
       ELSE /\ rec.page < PageBudget
            /\ cycles' = [cycles EXCEPT ![c] =
                 [rec EXCEPT !.allIssues = rec.allIssues \o issues,
                             !.page = rec.page + 1,
                             !.requests = rec.requests + 1]]
            /\ UNCHANGED <<diagnosticCollection, issuesByFile, treeMessage,
                           changeEvents, statusBarText>>
  /\ UNCHANGED <<currentMode, autoRefreshEnabled, selectedSeverities,
                 persistedSeverities, sevUpdatePending, lastMessage,
                 activeEditor, configFile, server, started, events,
                 lastEvent>>

\* A page with res.ok: lines 419-423.  data.paging.total is whatever the
\* server reports with this page, or always the same value when the server
\* is one that keeps its total.
FetchPage(c) ==
  /\ cycles[c].pc = "fetch"
  /\ cycles[c].cfg # "noServer"
  /\ \E issues \in PageChoices, total \in ReportedTotals :
       LET rec == cycles[c] IN
       IF Len(issues) = 0
       THEN AfterFetch(c, rec, rec.allIssues)
       ELSE IF total <= rec.page * pageSize
       THEN AfterFetch(c, rec, rec.allIssues \o issues)
       ELSE /\ rec.page < PageBudget
            /\ cycles' = [cycles EXCEPT ![c] =
                 [rec EXCEPT !.allIssues = rec.allIssues \o issues,
                             !.page = rec.page + 1,
                             !.requests = rec.requests + 1]]
            /\ UNCHANGED <<diagnosticCollection, issuesByFile, treeMessage,
                           changeEvents, statusBarText>>
  /\ UNCHANGED <<currentMode, autoRefreshEnabled, selectedSeverities,
                 persistedSeverities, sevUpdatePending, lastMessage,
                 activeEditor, configFile, server, started, events,
                 lastEvent>>

\* await vscode.workspace.findFiles(...) resumes; runESLintAnalysis starts.
FindFilesDone(c) ==
  /\ cycles[c].pc = "findFiles"
  /\ cycles' = [cycles EXCEPT ![c] =
       [cycles[c] EXCEPT !.pc = "lint", !.lintCalled = TRUE,
                         !.lintArg = FindFiles]]
  /\ UNCHANGED <<currentMode, autoRefreshEnabled, selectedSeverities,
                 persistedSeverities, sevUpdatePending, diagnosticCollection,
                 issuesByFile, treeMessage, changeEvents,
                 statusBarText, lastMessage,
                 activeEditor, configFile, server, started, events,
                 lastEvent>>

\* await runESLintAnalysis(files) resumes with the normalized findings.
LintReturns(c) ==
  /\ cycles[c].pc = "lint"
  /\ \E variant \in LintVariants :
       Finish(c, cycles[c], runESLintAnalysis(variant, cycles[c].lintArg))
  /\ UNCHANGED <<currentMode, autoRefreshEnabled, selectedSeverities,
                 persistedSeverities, sevUpdatePending, lastMessage,
                 activeEditor, configFile, server, started, events,
                 lastEvent>>

\* A faulty variant of the step below: the error escapes to the outer catch.
LintThrowsEscapes(c) ==
  /\ cycles[c].pc = "lint"
  /\ Return(c, Caught([cycles[c] EXCEPT !.lintThrew = TRUE]), currentMode)
  /\ UNCHANGED <<currentMode, autoRefreshEnabled, selectedSeverities,
                 persistedSeverities, sevUpdatePending, activeEditor,
                 configFile, server, started, events, lastEvent, lastMessage,
                 diagnosticCollection>>

\* runESLintAnalysis throws: the catch of lines 361-364 reports it and the
\* cycle goes on with localIssues = [].
LintThrows(c) ==
  /\ cycles[c].pc = "lint"
  /\ Finish(c, [cycles[c] EXCEPT !.lintThrew = TRUE,
                                 !.shown = "ESLint failed"], << >>)
  /\ lastMessage' = "ESLint failed"
  /\ UNCHANGED <<currentMode, autoRefreshEnabled, selectedSeverities,
                 persistedSeverities, sevUpdatePending, activeEditor,
                 configFile, server, started, events,
                 lastEvent>>

\* ------------------------------------------------------------- handlers
\* One more handler runs.
Event == events < EventBudget /\ events' = events + 1

\* activate(): the initial load
InitialLoad ==
  /\ started = 0
  /\ Event
  /\ lastEvent' = "initialLoad"
  /\ RefreshStart(currentMode, currentMode)
  /\ UNCHANGED <<currentMode, autoRefreshEnabled, selectedSeverities,
                 persistedSeverities, sevUpdatePending, activeEditor,
                 configFile, server>>

\* sonarExtension.refreshIssues
RefreshIssues ==
  /\ started > 0
  /\ Event
  /\ lastEvent' = "refreshIssues"
  /\ autoRefreshEnabled' = TRUE
  /\ RefreshStart(currentMode, currentMode)
  /\ UNCHANGED <<currentMode, selectedSeverities, persistedSeverities,
                 sevUpdatePending, activeEditor, configFile, server>>

\* A faulty variant of the command below: the markers are left in place.
ClearIssuesKeepsMarkers ==
  /\ started > 0
  /\ Event
  /\ lastEvent' = "clearIssues"
  /\ statusBarText' = ModeDisplayName(currentMode)
  /\ autoRefreshEnabled' = FALSE
  /\ issuesByFile' = SetIssuesMap(<< >>)
  /\ treeMessage' = SetIssuesMessage(<< >>)
  /\ changeEvents' = changeEvents + 1
  /\ lastMessage' = "Issues cleared"
  /\ UNCHANGED <<currentMode, selectedSeverities, persistedSeverities,
                 sevUpdatePending, activeEditor, configFile, server, cycles, started,
                 diagnosticCollection>>

\* A faulty variant of the command below: the cycles in flight are dropped.
ClearIssuesAborts ==
  /\ started > 0
  /\ Event
  /\ lastEvent' = "clearIssues"
  /\ diagnosticCollection' = << >>
  /\ statusBarText' = ModeDisplayName(currentMode)
  /\ autoRefreshEnabled' = FALSE
  /\ issuesByFile' = SetIssuesMap(<< >>)
  /\ treeMessage' = SetIssuesMessage(<< >>)
  /\ changeEvents' = changeEvents + 1
  /\ lastMessage' = "Issues cleared"
  /\ cycles' = [c \in CycleIds |->
                  IF cycles[c].pc \in {"new", "done"} THEN cycles[c]
                  ELSE [cycles[c] EXCEPT !.pc = "done", !.exit = "aborted"]]
  /\ UNCHANGED <<currentMode, selectedSeverities, persistedSeverities,
                 sevUpdatePending, activeEditor, configFile, server, started>>

\* sonarExtension.clearIssues
ClearIssues ==
  /\ started > 0
  /\ Event
  /\ lastEvent' = "clearIssues"
  /\ diagnosticCollection' = << >>
  /\ statusBarText' = ModeDisplayName(currentMode)
  /\ autoRefreshEnabled' = FALSE
  /\ issuesByFile' = SetIssuesMap(<< >>)
  /\ treeMessage' = SetIssuesMessage(<< >>)
  /\ changeEvents' = changeEvents + 1
  /\ lastMessage' = "Issues cleared"
  /\ UNCHANGED <<currentMode, selectedSeverities, persistedSeverities,
                 sevUpdatePending, activeEditor, configFile, server, cycles, started>>

\* The fixed label-to-mode table of sonarExtension.setFilter
FilterLabels ==
  {"All files (Overall Code)", "Current file (Overall Code)",
   "All files (New Code)", "Current file (New Code)"}

ModeOfLabel(choice) ==
  CASE choice = "All files (Overall Code)"    -> "overall-all"
    [] choice = "Current file (Overall Code)" -> "overall-file"
    [] choice = "All files (New Code)"        -> "new-all"
    [] choice = "Current file (New Code)"     -> "new-file"

\* A faulty variant of the command below: the refresh runs with the mode
\* the command found, not with the one it has just set.
SetFilterStaleMode ==
  /\ started > 0
  /\ Event
  /\ lastEvent' = "setFilter"
  /\ \E choice \in FilterLabels :
       /\ currentMode' = ModeOfLabel(choice)
       /\ RefreshStart(currentMode, ModeOfLabel(choice))
  /\ UNCHANGED <<autoRefreshEnabled, selectedSeverities, persistedSeverities,
                 sevUpdatePending, activeEditor, configFile, server>>

\* sonarExtension.setFilter with the picker dismissed: line 248 returns
SetFilterDismissed ==
  /\ started > 0
  /\ Event
  /\ lastEvent' = "setFilterDismissed"
  /\ UNCHANGED <<currentMode, autoRefreshEnabled, selectedSeverities,
                 persistedSeverities, sevUpdatePending, diagnosticCollection,
                 issuesByFile, treeMessage, changeEvents, statusBarText,
                 lastMessage, activeEditor, configFile, server, cycles,
                 started>>

\* sonarExtension.setFilter with a label picked
SetFilter ==
  /\ started > 0
  /\ Event
  /\ lastEvent' = "setFilter"
  /\ \E choice \in FilterLabels :
       /\ currentMode' = ModeOfLabel(choice)
       /\ RefreshStart(ModeOfLabel(choice), ModeOfLabel(choice))
  /\ UNCHANGED <<autoRefreshEnabled, selectedSeverities, persistedSeverities,
                 sevUpdatePending, activeEditor, configFile, server>>

\* selectSeverities: the pick is confirmed; the setting's update is awaited
SelectSeveritiesPick ==
  /\ started > 0
  /\ Event
  /\ lastEvent' = "selectSeverities"
  /\ ~ sevUpdatePending
  /\ \E S \in SeverityChoices : selectedSeverities' = PickedLabels(S)
  /\ sevUpdatePending' = TRUE
  /\ UNCHANGED <<currentMode, autoRefreshEnabled, persistedSeverities,
                 diagnosticCollection, issuesByFile, treeMessage,
                 changeEvents, statusBarText, lastMessage, activeEditor,
                 configFile, server,
                 cycles, started>>

\* selectSeverities with the picker dismissed: picked is undefined and the
\* body of line 150 is skipped
SelectSeveritiesDismissed ==
  /\ started > 0
  /\ Event
  /\ lastEvent' = "selectSeveritiesDismissed"
  /\ UNCHANGED <<currentMode, autoRefreshEnabled, selectedSeverities,
                 persistedSeverities, sevUpdatePending, diagnosticCollection,
                 issuesByFile, treeMessage, changeEvents, statusBarText,
                 lastMessage, activeEditor, configFile, server, cycles,
                 started>>

\* selectSeverities: the update of lines 152-154 is rejected.  It writes at
\* ConfigurationTarget.Workspace, which a window with no workspace folder
\* does not have; the await throws, nothing catches it, and line 157 is not
\* reached.
SelectSeveritiesSaveFails ==
  /\ sevUpdatePending
  /\ configFile = "noWorkspace"
  /\ sevUpdatePending' = FALSE
  /\ UNCHANGED <<currentMode, autoRefreshEnabled, selectedSeverities,
                 persistedSeverities, diagnosticCollection, issuesByFile,
                 treeMessage, changeEvents, statusBarText, lastMessage,
                 activeEditor, configFile, server, cycles, started, events,
                 lastEvent>>

\* selectSeverities: the update is done; the refresh command is executed
SelectSeveritiesSaved ==
  /\ sevUpdatePending
  /\ configFile # "noWorkspace"
  /\ sevUpdatePending' = FALSE
  /\ lastEvent' = "refreshIssues"
  /\ persistedSeverities' = selectedSeverities
  /\ autoRefreshEnabled' = TRUE
  /\ RefreshStart(currentMode, currentMode)
  /\ UNCHANGED <<currentMode, selectedSeverities, activeEditor, configFile, server,
                 events>>

\* A faulty variant of the handler below: the flag is not consulted.
SaveDocumentAlways ==
  /\ started > 0
  /\ Event
  /\ lastEvent' = "save"
  /\ RefreshStart(currentMode, currentMode)
  /\ UNCHANGED <<currentMode, autoRefreshEnabled, selectedSeverities,
                 persistedSeverities, sevUpdatePending, activeEditor,
                 configFile, server>>

\* onDidSaveTextDocument
SaveDocument ==
  /\ started > 0
  /\ Event
  /\ lastEvent' = "save"
  /\ IF autoRefreshEnabled
     THEN RefreshStart(currentMode, currentMode)
     ELSE UNCHANGED <<cycles, started, lastMessage, diagnosticCollection,
                      issuesByFile, treeMessage, changeEvents,
                 statusBarText>>
  /\ UNCHANGED <<currentMode, autoRefreshEnabled, selectedSeverities,
                 persistedSeverities, sevUpdatePending, activeEditor,
                 configFile, server>>

\* A faulty variant of the handler below: the mode is not consulted.
ChangeActiveEditorAnyMode ==
  /\ started > 0
  /\ Event
  /\ lastEvent' = "editorChange"
  /\ \E editor \in Editors :
       /\ editor # activeEditor
       /\ activeEditor' = editor
       /\ IF editor # << >>
          THEN RefreshStart(currentMode, currentMode)
          ELSE UNCHANGED <<cycles, started, lastMessage,
                           diagnosticCollection, issuesByFile, treeMessage,
                           changeEvents, statusBarText>>
  /\ UNCHANGED <<currentMode, autoRefreshEnabled, selectedSeverities,
                 persistedSeverities, sevUpdatePending, configFile, server>>

\* onDidChangeActiveTextEditor(editor)
ChangeActiveEditor ==
  /\ started > 0
  /\ Event
  /\ lastEvent' = "editorChange"
  /\ \E editor \in Editors :
       /\ editor # activeEditor
       /\ activeEditor' = editor
       /\ IF editor # << >> /\ currentMode \in {"overall-file", "new-file"}
          THEN RefreshStart(currentMode, currentMode)
          ELSE UNCHANGED <<cycles, started, lastMessage,
                           diagnosticCollection, issuesByFile, treeMessage,
                           changeEvents, statusBarText>>
  /\ UNCHANGED <<currentMode, autoRefreshEnabled, selectedSeverities,
                 persistedSeverities, sevUpdatePending, configFile, server>>

CycleStep ==
  \E c \in CycleIds :
    \/ FetchFails(c)
    \/ FetchNotOk(c)
    \/ FetchPage(c)
    \/ FindFilesDone(c)
    \/ LintReturns(c)
    \/ LintThrows(c)

Next ==
  \/ InitialLoad
  \/ RefreshIssues
  \/ ClearIssues
  \/ SetFilter
  \/ SetFilterDismissed
  \/ SelectSeveritiesPick
  \/ SelectSeveritiesDismissed
  \/ SelectSeveritiesSaveFails
  \/ SelectSeveritiesSaved
  \/ SaveDocument
  \/ ChangeActiveEditor
  \/ CycleStep

Spec == Init /\ [][Next]_vars

SteadySpec == SteadyInit /\ [][Next]_vars

\* ============================================================ properties
\* Cycle c returns in this step (and the handler awaiting it applies the
\* result).
Returns(c) == cycles[c].pc # "done" /\ cycles'[c].pc = "done"

Done(c) == cycles[c].pc = "done"

\* The severities of the issues the store holds, and of the markers the
\* diagnostics surface holds under one source tag.
StoreIssues(map) ==
  UNION { Range(map[i].issues) : i \in DOMAIN map }

Markers(coll, source) ==
  UNION { {d \in Range(coll[i].diags) : d.source = source} : i \in DOMAIN coll }

\* What each surface shows, as <<file, row, prefix, message, rule>>.
StoreView(map) ==
  { <<i.filePath, i.line - 1, mapSeverity(i.severity).prefix, i.message, i.rule>> :
      i \in StoreIssues(map) }

DiagView(coll) ==
  UNION { { <<coll[i].uri, d.line, d.message[1], d.message[2], d.message[3]>> :
              d \in Range(coll[i].diags) } : i \in DOMAIN coll }

\* C1: whenever a cycle returns, every issue of the list it returns (and the
\* handler stores) has a severity in selectedSeverities, and when the cycle
\* published, every marker of either source tag has one too.
C1_SeverityFilter ==
  [][\A c \in CycleIds :
       Returns(c) =>
         /\ \A i \in Range(cycles'[c].result) :
              Includes(selectedSeverities, i.severity)
         /\ \A i \in StoreIssues(issuesByFile') :
              Includes(selectedSeverities, i.severity)
         /\ cycles'[c].exit = "normal" =>
              \A source \in {"SonarQube", "ESLint"} :
                \A d \in Markers(diagnosticCollection', source) :
                  Includes(selectedSeverities, d.message[1])]_vars

\* C1: a cycle returned under the selection {BLOCKER} with remote issues of
\* other severities, and only the BLOCKER one is left.
C1_Witness ==
  \E c \in CycleIds :
    /\ Done(c)
    /\ selectedSeverities = <<"BLOCKER">>
    /\ cycles[c].result # << >>
    /\ Len(cycles[c].result) < Len(cycles[c].sonarIssues)
    /\ \A i \in Range(cycles[c].result) : i.severity = "BLOCKER"
    /\ StoreIssues(issuesByFile) = Range(cycles[c].result)

\* C2: whenever a cycle has returned and its handler has applied the result,
\* the grouped store and the diagnostics surface show the same issues.
C2_SameListOnBothSurfaces ==
  [][\A c \in CycleIds :
       Returns(c) => StoreView(issuesByFile') = DiagView(diagnosticCollection')]_vars

C4_RemoteFailureVoidsCycle ==
  [][\A c \in CycleIds :
       (Returns(c) /\ cycles'[c].fetchThrew) =>
         /\ ~ StartsWithNew(cycles'[c].mode)
         /\ cycles'[c].result = << >>
         /\ issuesByFile' = << >>
         /\ treeMessage' = NoIssuesMessage]_vars

\* C4: the second cycle's request failed after the first had shown issues,
\* and the view shows the placeholder.
C4_Witness ==
  /\ \E c \in CycleIds : Done(c) /\ cycles[c].result # << >>
  /\ \E c \in CycleIds :
       /\ Done(c)
       /\ cycles[c].fetchThrew
       /\ cycles[c].mode = "overall-all"
       /\ cycles[c].cfg = "complete"
  /\ issuesByFile = << >>
  /\ treeMessage = NoIssuesMessage

\* C5: a cycle that runs both branches still invokes the local analysis
\* runner when its remote fetch has failed.
C5_RemoteFailureKeepsLocal ==
  \A c \in CycleIds :
    (Done(c) /\ cycles[c].cfg = "complete" /\ cycles[c].fetchThrew
       /\ RunsRemote(cycles[c].mode) /\ RunsLocal(cycles[c].mode))
      => cycles[c].lintCalled

C7_ConfigMissing ==
  [][\A c \in CycleIds :
       (Returns(c) /\ configFile = "missing") =>
         /\ cycles'[c].result = << >>
         /\ issuesByFile' = << >>
         /\ lastMessage' = "Sonar config not found"
         /\ cycles'[c].requests = 0
         /\ ~ cycles'[c].lintCalled]_vars

\* C7: a cycle returned with the configuration file missing.
C7_Witness ==
  /\ configFile = "missing"
  /\ lastMessage = "Sonar config not found"
  /\ \E c \in CycleIds :
       Done(c) /\ cycles[c].exit = "noConfig" /\ cycles[c].requests = 0

\* C8: with a field of the configuration missing, a cycle returns the empty
\* list and calls neither the fetch client nor the lint runner.
C8_ConfigIncomplete ==
  \A c \in CycleIds :
    (Done(c) /\ cycles[c].cfg = "noServer") =>
      /\ cycles[c].result = << >>
      /\ cycles[c].requests = 0
      /\ ~ cycles[c].lintCalled

\* C9: a cycle that read a complete configuration calls the fetch client if
\* and only if its horizon is overall, and the lint runner if and only if
\* its horizon is new-code.
C9_SourcesByHorizon ==
  \A c \in CycleIds :
    (Done(c) /\ cycles[c].cfg = "complete") =>
      /\ cycles[c].requests > 0 <=> ~ StartsWithNew(cycles[c].mode)
      /\ cycles[c].lintCalled <=> StartsWithNew(cycles[c].mode)

\* C10: a current-file cycle returns issues of the active document only,
\* lints exactly [currentFile], restricts its remote query to that file, and
\* sends no unrestricted query when there is no active document.
C10_CurrentFileOnly ==
  \A c \in CycleIds :
    (Done(c) /\ EndsWithFile(cycles[c].mode)) =>
      /\ \A i \in Range(cycles[c].result) : i.filePath = cycles[c].currentFile
      /\ cycles[c].lintCalled => cycles[c].lintArg = <<cycles[c].currentFile>>
      /\ cycles[c].requests > 0 =>
           /\ cycles[c].fileFilter # << >>
           /\ cycles[c].fileFilter = cycles[c].currentFile

\* This step is a run of the handler of the given name.
Handles(name) == events' = events + 1 /\ lastEvent' = name

\* C11: after clear-issues and until the next refresh-issues command (that
\* is, while autoRefreshEnabled is false: only clear-issues unsets it, only
\* refresh-issues sets it), neither a document save nor an active-editor
\* change starts a refresh cycle, in any mode.
C11_ClearDisablesAutoRefresh ==
  [][(~ autoRefreshEnabled /\ (Handles("save") \/ Handles("editorChange")))
       => started' = started]_vars

\* C12: the flag is enabled at activation; a document save starts a cycle if
\* and only if the flag is enabled; only clear-issues disables the flag and
\* only the refresh-issues command enables it; set-filter and an
\* active-editor change leave it as it is.
C12_SaveFollowsFlag ==
  [][/\ Handles("initialLoad") => autoRefreshEnabled
     /\ Handles("save") => (started' = started + 1 <=> autoRefreshEnabled)
     /\ Handles("save") => (started' = started <=> ~ autoRefreshEnabled)
     /\ (autoRefreshEnabled /\ ~ autoRefreshEnabled') =>
          Handles("clearIssues")
     /\ (~ autoRefreshEnabled /\ autoRefreshEnabled') =>
          lastEvent' = "refreshIssues"
     /\ (Handles("setFilter") \/ Handles("editorChange")) =>
          UNCHANGED autoRefreshEnabled]_vars

\* C12: after the initial load and clear-issues, a document was saved and no
\* second cycle started.
C12_Witness ==
  /\ lastEvent = "save"
  /\ ~ autoRefreshEnabled
  /\ events = 3
  /\ started = 1

\* C13: an active-editor change starts a cycle only when the mode's breadth
\* is current-file and the new editor is defined; in the all-files modes it
\* starts none and leaves the store, the diagnostics and the mode as they
\* are.
C13_EditorChangeScope ==
  [][Handles("editorChange") =>
       /\ started' # started =>
            (EndsWithFile(currentMode) /\ activeEditor' # << >>)
       /\ ~ EndsWithFile(currentMode) =>
            UNCHANGED <<cycles, started, issuesByFile, diagnosticCollection,
                        treeMessage>>
       /\ UNCHANGED currentMode]_vars

\* C13: the active editor changed in an all-files mode while issues were
\* displayed, and they still are.
C13_Witness ==
  /\ lastEvent = "editorChange"
  /\ ~ EndsWithFile(currentMode)
  /\ activeEditor # << >>
  /\ issuesByFile # << >>
  /\ diagnosticCollection # << >>
  /\ started = 1

\* C14: right after clear-issues the store holds no file, the diagnostics
\* surface holds no marker and the view shows the placeholder.
C14_ClearWipesDisplay ==
  [][Handles("clearIssues") =>
       /\ issuesByFile' = << >>
       /\ diagnosticCollection' = << >>
       /\ treeMessage' = NoIssuesMessage]_vars

\* C14: clear-issues ran after a cycle had displayed issues.
C14_Witness ==
  /\ lastEvent = "clearIssues"
  /\ issuesByFile = << >>
  /\ diagnosticCollection = << >>
  /\ treeMessage = NoIssuesMessage
  /\ started = 1
  /\ Done(1)
  /\ cycles[1].result # << >>

\* A cycle is in flight: it waits at a suspension point.
InFlight(c) == cycles[c].pc \notin {"new", "done"}

\* What a list of issues shows, as <<file, row, prefix, message, rule>>.
ListView(issues) ==
  { <<i.filePath, i.line - 1, mapSeverity(i.severity).prefix, i.message, i.rule>> :
      i \in Range(issues) }

\* C15: clear-issues leaves the cycles in flight as they are, and a cycle
\* that returns while auto-refresh is disabled still writes its result to
\* the store and, when it publishes, to the diagnostics surface.
C15_ClearDoesNotAbort ==
  [][/\ Handles("clearIssues") => UNCHANGED <<cycles, started>>
     /\ \A c \in CycleIds :
          (Returns(c) /\ ~ autoRefreshEnabled) =>
            /\ cycles[c].pc \in {"new", "fetch", "findFiles", "lint"}
            /\ cycles'[c].exit \in {"normal", "noWorkspace", "noConfig", "caught"}
            /\ StoreView(issuesByFile') = ListView(cycles'[c].result)
            /\ cycles'[c].exit = "normal" =>
                 DiagView(diagnosticCollection') = ListView(cycles'[c].result)]_vars

\* C15: clear-issues is the last handler that ran, the only cycle started
\* is the initial load's, and the display is not empty.
C15_Witness ==
  /\ lastEvent = "clearIssues"
  /\ events = 2
  /\ started = 1
  /\ Done(1)
  /\ issuesByFile # << >>
  /\ diagnosticCollection # << >>

\* C16: cycles carry no generation token: a cycle that returns while a
\* cycle started after it has already returned still writes its result to
\* the store.
C16_LastWriteWins ==
  [][\A c1, c2 \in CycleIds :
       (c1 < c2 /\ Done(c2) /\ Returns(c1)) =>
         /\ issuesByFile' = SetIssuesMap(cycles'[c1].result)
         /\ StoreView(issuesByFile') = ListView(cycles'[c1].result)]_vars

\* C16: both cycles have returned, the second one started while the first
\* was in flight, and the store holds the first cycle's result, which is not
\* the second's.
C16_Witness ==
  /\ Done(1) /\ Done(2)
  /\ cycles[1].result # << >>
  /\ cycles[1].result # cycles[2].result
  /\ StoreView(issuesByFile) = ListView(cycles[1].result)
  /\ StoreView(issuesByFile) # ListView(cycles[2].result)

\* C17: a cycle always returns a list, and a cycle that ends in a failure
\* not isolated to one branch (no configuration file, or an error caught by
\* the outer handler) returns the empty list and has shown a message.
C17_FailureIsSurfaced ==
  \A c \in CycleIds :
    Done(c) =>
      /\ cycles[c].exit \in {"normal", "noWorkspace", "noConfig", "caught"}
      /\ cycles[c].exit \in {"noConfig", "caught"} =>
           (cycles[c].result = << >> /\ cycles[c].shown # "none")

\* C18: when the lint run of a cycle throws, the error is reported, the
\* local branch contributes nothing and the remote issues of the cycle,
\* filtered by selectedSeverities, reach the store.
C18_LintFailureIsolated ==
  [][\A c \in CycleIds :
       (Returns(c) /\ cycles'[c].lintThrew) =>
         /\ cycles'[c].exit = "normal"
         /\ cycles'[c].shown = "ESLint failed"
         /\ cycles'[c].localIssues = << >>
         /\ cycles'[c].result =
              FilterBySeverity(cycles'[c].sonarIssues, selectedSeverities)
         /\ StoreView(issuesByFile') = ListView(cycles'[c].result)]_vars

\* C18: the lint run of an overall-all cycle threw and the remote issues
\* are in the store.
C18_Witness ==
  \E c \in CycleIds :
    /\ Done(c)
    /\ cycles[c].lintThrew
    /\ cycles[c].sonarIssues # << >>
    /\ cycles[c].result # << >>
    /\ StoreView(issuesByFile) = ListView(cycles[c].result)

\* Two cycles saw the same mode, configuration, active document, server
\* responses, lint outcome and severity selection.
SameInputs(r1, r2) ==
  /\ r1.mode = r2.mode
  /\ r1.cfg = r2.cfg
  /\ r1.currentFile = r2.currentFile
  /\ r1.severitiesParam = r2.severitiesParam
  /\ r1.requests = r2.requests
  /\ r1.allIssues = r2.allIssues
  /\ r1.fetchThrew = r2.fetchThrew
  /\ r1.fetchReturned = r2.fetchReturned
  /\ r1.lintArg = r2.lintArg
  /\ r1.lintThrew = r2.lintThrew
  /\ r1.localIssues = r2.localIssues
  /\ r1.selected = r2.selected
  /\ r1.exit = r2.exit

\* The display is as cycle c left it when it returned: the map grouped from
\* its result and, when it published, the markers of its two filtered lists.
ShowsResultOf(c) ==
  /\ issuesByFile = GroupByFile(<< >>, cycles[c].result)
  /\ treeMessage = SetIssuesMessage(cycles[c].result)
  /\ cycles[c].exit = "normal" =>
       diagnosticCollection =
         PublishAll(PublishAll(<< >>,
                               FilterBySeverity(cycles[c].sonarIssues,
                                                cycles[c].selected),
                               "SonarQube"),
                    FilterBySeverity(cycles[c].localIssues, cycles[c].selected),
                    "ESLint")

\* C19: a cycle that returns with the display as an earlier cycle with the
\* same inputs left it leaves the store and the diagnostics surface as they
\* are.
C19_RefreshIdempotent ==
  [][\A c1, c2 \in CycleIds :
       (c1 # c2 /\ Done(c1) /\ Returns(c2) /\ ShowsResultOf(c1)
          /\ SameInputs(cycles[c1], cycles'[c2])) =>
         /\ issuesByFile' = issuesByFile
         /\ treeMessage' = treeMessage
         /\ diagnosticCollection' = diagnosticCollection]_vars

\* C19: the refresh command was run after the initial load had displayed
\* issues, and both cycles saw the same inputs.
C19_Witness ==
  /\ Done(1) /\ Done(2)
  /\ lastEvent = "refreshIssues"
  /\ events = 2
  /\ SameInputs(cycles[1], cycles[2])
  /\ cycles[2].exit = "normal"
  /\ cycles[2].sonarIssues # << >>
  /\ cycles[2].localIssues # << >>
  /\ cycles[2].result # << >>
  /\ ShowsResultOf(2)

\* The keys of the file-to-issues mapping, and the files of a list.
Keys(map) == {map[i].key : i \in DOMAIN map}

Files(issues) == {i.filePath : i \in Range(issues)}

\* C20: after each setIssues call (by a handler a cycle returned to, or by
\* clear-issues) the keys of the mapping are exactly the files of the
\* argument of that call, each once.
C20_SetIssuesReplaces ==
  [][/\ \A c \in CycleIds :
          Returns(c) =>
            /\ Keys(issuesByFile') = Files(cycles'[c].result)
            /\ Len(issuesByFile') = Cardinality(Keys(issuesByFile'))
     /\ Handles("clearIssues") => Keys(issuesByFile') = {}]_vars

\* C20: the store holds the files of one cycle's result and not a file that
\* only the other cycle's result has.
C20_Witness ==
  \E c1, c2 \in CycleIds :
    /\ Done(c1) /\ Done(c2)
    /\ issuesByFile # << >>
    /\ Keys(issuesByFile) = Files(cycles[c2].result)
    /\ Files(cycles[c1].result) \ Keys(issuesByFile) # {}

\* C21: after each setIssues call on the provider of the view (by a handler
\* a cycle returned to, or by clear-issues) the view shows the placeholder
\* exactly when the list passed was empty, and shows no message otherwise;
\* each call fires one change notification, and the store and the message
\* change only with one.
C21_PlaceholderIffEmpty ==
  [][/\ \A c \in CycleIds :
          Returns(c) =>
            /\ treeMessage' = NoIssuesMessage <=> cycles'[c].result = << >>
            /\ treeMessage' \in {NoIssuesMessage, ""}
            /\ changeEvents' = changeEvents + 1
     /\ Handles("clearIssues") =>
          /\ treeMessage' = NoIssuesMessage
          /\ changeEvents' = changeEvents + 1
     /\ treeMessage' = NoIssuesMessage <=>
          (issuesByFile' = << >> /\ changeEvents' > 0)
     /\ (issuesByFile' # issuesByFile \/ treeMessage' # treeMessage) =>
          changeEvents' = changeEvents + 1]_vars

\* C21: a cycle returned an empty list, the placeholder was shown, and a
\* later call with a non-empty list removed it.
C21_Witness ==
  /\ Done(1) /\ Done(2)
  /\ cycles[1].result = << >>
  /\ cycles[2].result # << >>
  /\ changeEvents = 2
  /\ issuesByFile = GroupByFile(<< >>, cycles[2].result)
  /\ treeMessage = ""

\* The records the server sends as a page that is not empty, and what
\* allIssues holds after n such pages.
FullPage == CHOOSE page \in PageChoices : page # << >>

RECURSIVE PagesRead(_)
PagesRead(n) == IF n = 0 THEN << >> ELSE PagesRead(n - 1) \o FullPage

\* The total of a server that reports one total, and the requests that
\* cover it at 500 records a page.
SteadyTotal == CHOOSE total \in server : TRUE

RequestsFor(total) == (total + 499) \div 500

\* C22: against a server that reports the same paging.total T >= 1 on every
\* page, a fetch never issues more than ceil(T/500) requests; one whose
\* every request was answered with a non-empty page has issued exactly
\* ceil(T/500) when it returns, and any other fetch that returns stopped at
\* its first page without records (or not ok), holding the pages before it.
C22_RequestCount ==
  Cardinality(server) = 1 =>
    \A c \in CycleIds :
      LET rec == cycles[c] IN
      rec.requests > 0 =>
        /\ rec.requests <= RequestsFor(SteadyTotal)
        /\ rec.pc = "fetch" => rec.allIssues = PagesRead(rec.requests - 1)
        /\ rec.fetchReturned =>
             \/ /\ rec.allIssues = PagesRead(rec.requests)
                /\ rec.requests = RequestsFor(SteadyTotal)
             \/ rec.allIssues = PagesRead(rec.requests - 1)

\* C22: with T = 1200 a fetch returned three full pages after three
\* requests.
C22_Witness ==
  /\ server = {1200}
  /\ \E c \in CycleIds :
       /\ cycles[c].fetchReturned
       /\ cycles[c].requests = 3
       /\ cycles[c].allIssues = PagesRead(3)

\* C23: when request k of a fetch is answered with a status that is not ok,
\* the fetch returns the pages 1..k-1 it has read, in order (nothing when
\* k = 1), throws nothing and reports nothing, and the cycle goes on as after
\* any fetch that returned: it reconciles that list and runs the local
\* branch or finishes normally.
C23_NotOkKeepsPages ==
  [][\A c \in CycleIds :
       FetchNotOk(c) =>
         LET rec == cycles'[c] IN
         /\ rec.fetchReturned /\ ~ rec.fetchThrew
         /\ rec.requests = cycles[c].requests
         /\ rec.allIssues = PagesRead(rec.requests - 1)
         /\ rec.sonarIssues =
              filterByWorkspace(rec.allIssues, rec.projectKey, WorkspaceRoot,
                                IF EndsWithFile(rec.mode)
                                THEN rec.currentFile ELSE << >>)
         /\ lastMessage' = lastMessage
         /\ rec.shown = "none"
         /\ IF RunsLocal(rec.mode)
            THEN rec.pc \in {"findFiles", "lint"}
            ELSE /\ rec.pc = "done"
                 /\ rec.exit = "normal"
                 /\ rec.result =
                      FilterBySeverity(rec.sonarIssues, selectedSeverities)]_vars

\* C23: a fetch stopped at its second request holding the first page, and
\* the cycle finished normally and displayed issues of that page.
C23_Witness ==
  \E c \in CycleIds :
    /\ Done(c)
    /\ cycles[c].fetchReturned
    /\ cycles[c].requests = 2
    /\ cycles[c].allIssues = PagesRead(1)
    /\ cycles[c].exit = "normal"
    /\ cycles[c].result # << >>
    /\ issuesByFile = GroupByFile(<< >>, cycles[c].result)

\* The file a remote record names: its component without the project-key
\* prefix and without separators, under the workspace root.
NamedFile(raw) ==
  WorkspaceRoot \o SelectSeq(raw.component, LAMBDA t : t \notin {"pk:", "/"})

\* The files the diagnostics surface holds markers of one source for.
MarkedFiles(coll, source) ==
  {coll[i].uri : i \in {j \in DOMAIN coll :
                          \E k \in DOMAIN coll[j].diags :
                            coll[j].diags[k].source = source}}

\* C24: every issue the reconciler returns refers to a file that exists in
\* the workspace, a remote record whose file does not exist has no issue in
\* the reconciled list, and so no file that does not exist is a key of the
\* store or carries a marker of the remote source.
C24_OnlyExistingFiles ==
  /\ \A c \in CycleIds :
       /\ \A i \in DOMAIN cycles[c].sonarIssues :
            ExistsSync(cycles[c].sonarIssues[i].filePath)
       /\ \A i \in DOMAIN cycles[c].allIssues :
            ~ ExistsSync(NamedFile(cycles[c].allIssues[i])) =>
              NamedFile(cycles[c].allIssues[i]) \notin Files(cycles[c].sonarIssues)
       /\ \A i \in DOMAIN cycles[c].result :
            ExistsSync(cycles[c].result[i].filePath)
  /\ \A f \in Keys(issuesByFile) : ExistsSync(f)
  /\ \A f \in MarkedFiles(diagnosticCollection, "SonarQube") : ExistsSync(f)

\* C24: a fetch returned a record of a file that is not in the workspace,
\* with a selected severity, next to records of files that are; the cycle
\* displayed the others.
C24_Witness ==
  \E c \in CycleIds :
    /\ Done(c)
    /\ cycles[c].exit = "normal"
    /\ \E i \in DOMAIN cycles[c].allIssues :
         /\ ~ ExistsSync(NamedFile(cycles[c].allIssues[i]))
         /\ Includes(cycles[c].selected, cycles[c].allIssues[i].severity)
    /\ cycles[c].sonarIssues # << >>
    /\ FilterBySeverity(cycles[c].sonarIssues, cycles[c].selected) # << >>
    /\ Keys(issuesByFile) = Files(cycles[c].result)
    /\ MarkedFiles(diagnosticCollection, "SonarQube") # {}

\* The remote records of a list that name a file of the workspace.
OnDisk(raws) == SelectSeq(raws, LAMBDA raw : ExistsSync(NamedFile(raw)))

\* C25: when a cycle reconciles without a current-file restriction, the
\* reconciled list has one issue for each fetched record that names an
\* existing file, in the order of the records, with that file under the
\* workspace root as filePath and the record's start line, or 1 when it has
\* none, as line.
C25_ReconcileRoundTrip ==
  \A c \in CycleIds :
    LET rec == cycles[c]
        kept == OnDisk(rec.allIssues)
    IN  (/\ rec.fetchReturned
         /\ (EndsWithFile(rec.mode) => rec.currentFile = << >>)) =>
          /\ Len(rec.sonarIssues) = Len(kept)
          /\ \A i \in DOMAIN kept :
               /\ rec.sonarIssues[i].filePath = NamedFile(kept[i])
               /\ rec.sonarIssues[i].line =
                    (IF kept[i].startLine > 0 THEN kept[i].startLine ELSE 1)
               /\ kept[i].message # "" =>
                    rec.sonarIssues[i].message = kept[i].message

\* C25: a page was reconciled without restriction; it held a record with
\* start line 3, one with a leading separator and no start line, and one
\* of a file that is not on disk.
C25_Witness ==
  \E c \in CycleIds :
    /\ cycles[c].fetchReturned
    /\ ~ EndsWithFile(cycles[c].mode)
    /\ cycles[c].allIssues = FullPage
    /\ Len(OnDisk(FullPage)) = 3
    /\ Len(cycles[c].sonarIssues) = 3
    /\ cycles[c].sonarIssues[1].line = 3
    /\ cycles[c].sonarIssues[2].filePath = FileB
    /\ cycles[c].sonarIssues[2].line = 1

\* The native severities of the messages of lint results, in the order
\* runESLintAnalysis walks them.
RECURSIVE NativeSeverities(_)
NativeSeverities(results) ==
  IF results = << >> THEN << >>
  ELSE [j \in DOMAIN Head(results).messages |->
          Head(results).messages[j].severity]
       \o NativeSeverities(Tail(results))

\* C26: the local issues of a cycle carry, message by message, CRITICAL for
\* native 2 or "error", MAJOR for native 1 or "warn" and INFO for anything
\* else, so never BLOCKER or MINOR, and neither does a marker of the local
\* source; a cycle that finishes with only BLOCKER and MINOR selected
\* returns remote issues alone, and while every cycle that finished did so
\* the surface holds no marker of the local source and the store no issue
\* of another severity.
C26_LocalSeverities ==
  /\ \A c \in CycleIds :
       LET rec == cycles[c]
           LocalSeverityTable(native) ==
             IF native \in {Num(2), Str("error")} THEN "CRITICAL"
             ELSE IF native \in {Num(1), Str("warn")} THEN "MAJOR"
             ELSE "INFO"
       IN
       /\ \A i \in DOMAIN rec.localIssues :
            rec.localIssues[i].severity \in {"CRITICAL", "MAJOR", "INFO"}
       /\ rec.localIssues # << >> =>
            \E variant \in LintVariants :
              LET natives == NativeSeverities(LintFiles(variant, rec.lintArg))
              IN  /\ Len(natives) = Len(rec.localIssues)
                  /\ \A i \in DOMAIN natives :
                       rec.localIssues[i].severity =
                         LocalSeverityTable(natives[i])
       /\ (rec.exit = "normal" /\ Range(rec.selected) \subseteq {"BLOCKER", "MINOR"})
            => rec.result = FilterBySeverity(rec.sonarIssues, rec.selected)
  /\ \A d \in Markers(diagnosticCollection, "ESLint") :
       d.message[1] \in {"CRITICAL", "MAJOR", "INFO"}
  /\ (\A c \in CycleIds :
        cycles[c].exit = "normal" =>
          Range(cycles[c].selected) \subseteq {"BLOCKER", "MINOR"})
       => /\ Markers(diagnosticCollection, "ESLint") = {}
          /\ \A i \in StoreIssues(issuesByFile) :
               i.severity \in {"BLOCKER", "MINOR"}

\* C26: with the default selection a cycle whose lint run reported findings
\* of all three severities displayed remote issues and none of them.
C26_Witness ==
  \E c \in CycleIds :
    /\ Done(c)
    /\ cycles[c].exit = "normal"
    /\ cycles[c].selected = <<"BLOCKER">>
    /\ {cycles[c].localIssues[i].severity : i \in DOMAIN cycles[c].localIssues}
         = {"CRITICAL", "MAJOR", "INFO"}
    /\ cycles[c].result # << >>
    /\ issuesByFile = GroupByFile(<< >>, cycles[c].result)
    /\ Markers(diagnosticCollection, "SonarQube") # {}
    /\ Markers(diagnosticCollection, "ESLint") = {}

\* Severity values that are none of the five known ones (no selection made
\* through the picker lets one through to the store).
UnknownSeverities == {"", "UNKNOWN", "blocker"}

\* C27: each issue node of the store has an icon of the class of its
\* severity (error for BLOCKER and CRITICAL, warning for MAJOR, info for
\* MINOR and INFO), which is the level of every marker of the same finding
\* on the diagnostics surface; and for a severity value that is none of the
\* five, getTreeItem gives the info icon and mapSeverity the Information
\* level.
C27_SameLevelOnBothSurfaces ==
  LET LevelOf(id) == CASE id = "error" -> "Error"
                       [] id = "warning" -> "Warning"
                       [] id = "info" -> "Information"
      Expected(sev) == IF sev \in {"BLOCKER", "CRITICAL"} THEN "Error"
                       ELSE IF sev = "MAJOR" THEN "Warning"
                       ELSE "Information"
  IN  /\ \A sev \in UnknownSeverities :
           /\ LevelOf(getTreeItemIcon(sev).id) = mapSeverity(sev).vscodeSeverity
           /\ mapSeverity(sev).vscodeSeverity = "Information"
      /\ \A e \in Range(issuesByFile) :
           \A i \in DOMAIN e.issues :
             LET issue == e.issues[i]
                 icon == getTreeItemIcon(issue.severity)
             IN  /\ LevelOf(icon.id) = Expected(issue.severity)
                 /\ \A d \in Range(DiagGet(diagnosticCollection, e.key)) :
                      (/\ d.line = issue.line - 1
                       /\ d.message[2] = issue.message
                       /\ d.message[3] = issue.rule) =>
                        d.severity = LevelOf(icon.id)

\* C27: the store and the diagnostics surface show the same findings, of
\* all five severities and so of all three levels.
C27_Witness ==
  /\ {i.severity : i \in StoreIssues(issuesByFile)} = Range(allSeverities)
  /\ {getTreeItemIcon(i.severity).id : i \in StoreIssues(issuesByFile)}
       = {"error", "warning", "info"}
  /\ {d.severity : d \in Markers(diagnosticCollection, "SonarQube")
                          \cup Markers(diagnosticCollection, "ESLint")}
       = {"Error", "Warning", "Information"}
  /\ StoreView(issuesByFile) = DiagView(diagnosticCollection)

\* The issues of a list that are of one file, in the order of the list.
OfFile(issues, f) == SelectSeq(issues, LAMBDA i : i.filePath = f)

\* The files the diagnostics surface has an entry for.
Uris(coll) == {coll[i].uri : i \in DOMAIN coll}

\* C28: when a cycle publishes (it finishes normally), the diagnostics
\* surface then holds, for each file, one marker for each issue of that file
\* in the filtered remote list, tagged SonarQube and in the order of that
\* list, followed by one marker for each issue of that file in the filtered
\* local list, tagged ESLint; it has one entry a file, none without a
\* marker, and nothing else, whatever it held before.
C28_PublishReplaces ==
  [][\A c \in CycleIds :
       (Returns(c) /\ cycles'[c].exit = "normal") =>
         LET rec == cycles'[c]
             remote == FilterBySeverity(rec.sonarIssues, rec.selected)
             local == FilterBySeverity(rec.localIssues, rec.selected)
             MarkersOf(issues, f, source) ==
               [k \in DOMAIN OfFile(issues, f) |->
                  Diagnostic(OfFile(issues, f)[k], source)]
         IN  /\ Uris(diagnosticCollection') = Files(remote) \cup Files(local)
             /\ Len(diagnosticCollection') = Cardinality(Uris(diagnosticCollection'))
             /\ \A f \in Uris(diagnosticCollection) \cup Uris(diagnosticCollection') :
                  DiagGet(diagnosticCollection', f) =
                    MarkersOf(remote, f, "SonarQube")
                      \o MarkersOf(local, f, "ESLint")]_vars

\* C28: two cycles published; the surface holds the markers of the second
\* publish, a file with markers of both sources among them, and fewer
\* markers for some file than the first publish set.
C28_Witness ==
  /\ Done(1) /\ Done(2)
  /\ cycles[1].exit = "normal" /\ cycles[2].exit = "normal"
  /\ LET first == showSeparatedDiagnostics(
                    FilterBySeverity(cycles[1].sonarIssues, cycles[1].selected),
                    FilterBySeverity(cycles[1].localIssues, cycles[1].selected))
         second == showSeparatedDiagnostics(
                    FilterBySeverity(cycles[2].sonarIssues, cycles[2].selected),
                    FilterBySeverity(cycles[2].localIssues, cycles[2].selected))
     IN  /\ diagnosticCollection = second
         /\ \E f \in Uris(first) :
              Len(DiagGet(first, f)) > Len(DiagGet(second, f))
         /\ \E e \in Range(second) :
              {e.diags[k].source : k \in DOMAIN e.diags} = {"SonarQube", "ESLint"}

\* The messages of lint results, in the order runESLintAnalysis walks them.
RECURSIVE NativeMessages(_)
NativeMessages(results) ==
  IF results = << >> THEN << >>
  ELSE [j \in DOMAIN Head(results).messages |->
          Head(results).messages[j].message]
       \o NativeMessages(Tail(results))

\* C29: the list a cycle that finishes normally returns is the issues of
\* its reconciled remote list that have a selected severity, in the order
\* of that list, followed by the issues of its local list that have one, in
\* the order of that list; the reconciled list follows the order of the
\* fetched records and the local list the order of the lint results.
C29_RemoteThenLocal ==
  \A c \in CycleIds :
    LET rec == cycles[c]
        Selected(i) == i.severity \in Range(rec.selected)
        Wanted(raw) ==
          /\ ExistsSync(NamedFile(raw))
          /\ (EndsWithFile(rec.mode) /\ rec.currentFile # << >>) =>
               NamedFile(raw) = rec.currentFile
        kept == SelectSeq(rec.allIssues, Wanted)
    IN  /\ rec.exit = "normal" =>
             rec.result = SelectSeq(rec.sonarIssues, Selected)
                            \o SelectSeq(rec.localIssues, Selected)
        /\ rec.fetchReturned =>
             /\ Len(rec.sonarIssues) = Len(kept)
             /\ \A i \in DOMAIN kept :
                  /\ rec.sonarIssues[i].filePath = NamedFile(kept[i])
                  /\ rec.sonarIssues[i].rule =
                       (IF kept[i].rule = "" THEN "Unknown" ELSE kept[i].rule)
        /\ rec.localIssues # << >> =>
             \E variant \in LintVariants :
               [i \in DOMAIN rec.localIssues |-> rec.localIssues[i].message]
                 = NativeMessages(LintFiles(variant, rec.lintArg))

\* C29: a cycle returned remote issues followed by local ones, several of
\* each.
C29_Witness ==
  \E c \in CycleIds :
    LET rec == cycles[c] IN
    /\ Done(c)
    /\ rec.exit = "normal"
    /\ Len(rec.sonarIssues) > 1
    /\ Len(rec.localIssues) > 1
    /\ Len(rec.result) = Len(rec.sonarIssues) + Len(rec.localIssues)
    /\ rec.result[1] = rec.sonarIssues[1]
    /\ rec.result[Len(rec.result)] = rec.localIssues[Len(rec.localIssues)]
    /\ rec.sonarIssues[1] # rec.localIssues[1]

\* The number of issues the mapping holds, all groups together.
RECURSIVE GroupSizes(_)
GroupSizes(map) ==
  IF map = << >> THEN 0 ELSE Len(Head(map).issues) + GroupSizes(Tail(map))

\* C30: after each setIssues call (by a handler a cycle returned to, with
\* the list L it returned, or by clear-issues, with the empty list) the
\* group of each key of the mapping is the issues of L with that key as
\* filePath, in the order of L and with repetitions; no group is empty, each
\* file of L has one group, and the group sizes sum to the length of L.
C30_GroupingKeepsAll ==
  [][/\ \A c \in CycleIds :
          Returns(c) =>
            LET L == cycles'[c].result IN
            /\ \A e \in Range(issuesByFile') :
                 e.issues = OfFile(L, e.key) /\ e.issues # << >>
            /\ Keys(issuesByFile') = Files(L)
            /\ Len(issuesByFile') = Cardinality(Files(L))
            /\ GroupSizes(issuesByFile') = Len(L)
     /\ Handles("clearIssues") => GroupSizes(issuesByFile') = 0]_vars

\* C30: the store holds the list of a cycle in several groups, one of them
\* with the same finding twice.
C30_Witness ==
  \E c \in CycleIds :
    /\ Done(c)
    /\ issuesByFile = GroupByFile(<< >>, cycles[c].result)
    /\ Len(issuesByFile) > 1
    /\ GroupSizes(issuesByFile) = Len(cycles[c].result)
    /\ \E e \in Range(issuesByFile) :
         \E i, j \in DOMAIN e.issues : i < j /\ e.issues[i] = e.issues[j]

\* C31: asked for the children of the root, the provider answers with the
\* keys of the mapping, each once, in sorted order whatever the order they
\* were inserted in; asked for those of a file key, with the group of that
\* key, and with nothing for a path that is no key; asked for those of an
\* issue, with nothing.
C31_GetChildren ==
  LET roots == getChildren(issuesByFile, RootElement)
      Rank(path) == CHOOSE k \in DOMAIN SortedPaths : SortedPaths[k] = path
  IN  /\ Range(roots) = Keys(issuesByFile)
      /\ Len(roots) = Len(issuesByFile)
      /\ \A i, j \in DOMAIN roots : i < j => Rank(roots[i]) < Rank(roots[j])
      /\ \A e \in Range(issuesByFile) :
           getChildren(issuesByFile, FileElement(e.key)) = e.issues
      /\ \A path \in Range(SortedPaths) \ Keys(issuesByFile) :
           getChildren(issuesByFile, FileElement(path)) = << >>
      /\ getChildren(issuesByFile, IssueElement) = << >>

\* C31: the mapping got the key of b.ts first, then that of a.ts, then that
\* of .eslintrc.js, and the root's children are .eslintrc.js, a.ts, b.ts.
C31_Witness ==
  /\ Len(issuesByFile) = 3
  /\ issuesByFile[1].key = FileB
  /\ issuesByFile[2].key = FileA
  /\ issuesByFile[3].key = DotFile
  /\ getChildren(issuesByFile, RootElement) = <<DotFile, FileA, FileB>>
  /\ getChildren(issuesByFile, FileElement(FileB)) = issuesByFile[1].issues

\* C32: the four labels of set-filter name the four scope modes, one each;
\* the command with a label picked sets the mode of that label and starts a
\* refresh cycle with it, and the list a cycle returns becomes the store; with
\* the picker dismissed it leaves the mode, the store, the diagnostics, the
\* status bar and the auto-refresh flag as they are and starts no cycle; until
\* the first command the mode is overall-all.
C32_SetFilter ==
  [][/\ \A l1, l2 \in FilterLabels :
          ModeOfLabel(l1) = ModeOfLabel(l2) => l1 = l2
     /\ {ModeOfLabel(l) : l \in FilterLabels} = Modes
     /\ Handles("initialLoad") => currentMode = "overall-all"
     /\ Handles("setFilter") =>
          /\ \E choice \in FilterLabels : currentMode' = ModeOfLabel(choice)
          /\ started' = started + 1
          /\ cycles'[started'].pc # "new"
          /\ cycles'[started'].mode = currentMode'
          /\ autoRefreshEnabled' = autoRefreshEnabled
     /\ \A c \in CycleIds :
          Returns(c) =>
            /\ cycles'[c].mode = IF cycles[c].pc = "new"
                                 THEN cycles'[c].mode ELSE cycles[c].mode
            /\ issuesByFile' = GroupByFile(<< >>, cycles'[c].result)
            /\ treeMessage' = SetIssuesMessage(cycles'[c].result)
     /\ Handles("setFilterDismissed") =>
          UNCHANGED <<currentMode, issuesByFile, treeMessage,
                      diagnosticCollection, statusBarText,
                      autoRefreshEnabled, cycles, started>>
    ]_vars

\* C32: set-filter ran last, with "Current file (New Code)" picked while
\* another mode was in force; the cycle it started ran in that mode and has
\* returned, and the store holds its list.
C32_Witness ==
  /\ lastEvent = "setFilter"
  /\ currentMode = "new-file"
  /\ started = 2
  /\ cycles[1].mode = "overall-all"
  /\ cycles[2].mode = "new-file"
  /\ Done(2)
  /\ cycles[2].exit = "normal"
  /\ cycles[2].result # << >>
  /\ issuesByFile = GroupByFile(<< >>, cycles[2].result)

\* C33: only select-severities changes the selected severities, and it sets
\* them to the picked labels; once the pick is confirmed the same labels are
\* persisted and a refresh is started; only that persists anything; with the
\* picker dismissed neither the set in memory nor the persisted one changes
\* and no cycle is started.
C33_OnlySelectionMutates ==
  [][/\ selectedSeverities' # selectedSeverities =>
          /\ Handles("selectSeverities")
          /\ \E S \in SeverityChoices : selectedSeverities' = PickedLabels(S)
     /\ Handles("selectSeverities") =>
          /\ \E S \in SeverityChoices : selectedSeverities' = PickedLabels(S)
          /\ sevUpdatePending'
     /\ (sevUpdatePending /\ ~ sevUpdatePending') =>
          /\ selectedSeverities' = selectedSeverities
          /\ persistedSeverities' = selectedSeverities
          /\ started' = started + 1
          /\ lastEvent' = "refreshIssues"
     /\ persistedSeverities' # persistedSeverities =>
          (sevUpdatePending /\ ~ sevUpdatePending')
     /\ Handles("selectSeveritiesDismissed") =>
          UNCHANGED <<selectedSeverities, persistedSeverities, cycles,
                      started>>
    ]_vars

\* C34: a cycle that queried the server and filtered what it got used one
\* severity set for both: the severities it sent with the query are the ones
\* it filtered its lists by.
C34_OneSeveritySetPerCycle ==
  \A c \in CycleIds :
    (Done(c) /\ cycles[c].exit = "normal" /\ cycles[c].fetchReturned) =>
      cycles[c].severitiesParam = cycles[c].selected

\* C35: every issue in the store is on line 1 or later, and every marker of
\* the diagnostics starts at row 0 or later.
C35_LinesArePositive ==
  /\ \A issue \in StoreIssues(issuesByFile) : issue.line >= 1
  /\ \A i \in DOMAIN diagnosticCollection :
       \A d \in Range(diagnosticCollection[i].diags) : d.line >= 0

====
